---------------------------- MODULE Spec2Model ----------------------------
(***************************************************************************)
(* A model of rediz/client.py: the write-permissioned value store Rediz    *)
(* on top of a Redis server.  The Redis server's keyspace is the state;    *)
(* every public method of Rediz is an action.                              *)
(*                                                                         *)
(* Strings of the program are modelled as follows.  Write keys and values  *)
(* are strings.  A redis key that is a name is the record of its           *)
(* colon-separated parts: "r:a.json" is [pre |-> <<"r">>, stem |-> "a",    *)
(* ext |-> ".json"], and a double colon shows as an empty part of pre.     *)
(***************************************************************************)
EXTENDS Integers, Sequences, FiniteSets, TLC

VARIABLES
    ownership,    \* redis hash OWNERSHIP: name -> official write key
    names,        \* redis set NAMES
    store,        \* redis string keys: name -> [value, exp], exp the epoch second of expiry (NoExpiry: none)
    subscribers,  \* redis sets SUBSCRIBERS+name: name -> set of subscriber names
    messages,     \* redis hashes MESSAGES+name: name -> (sender name -> value)
    history,      \* redis streams HISTORY+name: name -> sequence of names of copies
    promises,     \* redis sets PROMISES+epoch: epoch -> [members, exp]
    now,          \* int(time.time())
    ticks,        \* number of times the clock was advanced
    rand,         \* number of keys random_key() has drawn so far
    call,         \* the last public call that returned or raised: its arguments and its outcome
    proc          \* per client process: the position of its set() call between round trips

vars == <<ownership, names, store, subscribers, messages, history, promises, now, ticks, rand,
          call, proc>>

---------------------------------------------------------------------------
(* Bounds of the model                                                     *)

MaxRandom == 3     \* keys drawn from random_key() in one behaviour
MaxBatch == 2      \* entries of one batched set() or delete()
MaxTicks == 1      \* times the clock is advanced
MaxElapse == 3     \* times the clock is advanced where the promises are followed
StartTime == 100   \* epoch second at which the behaviour starts

---------------------------------------------------------------------------
(* Python values                                                           *)

None == "None"
NoName == [pre |-> <<>>, stem |-> "None", ext |-> ""]   \* None where a name is expected
NoExpiry == -1

Range(s) == {s[i] : i \in DOMAIN s}
Put(f, k, v) == [x \in DOMAIN f \cup {k} |-> IF x = k THEN v ELSE f[x]]
Drop(f, ks) == [x \in DOMAIN f \ ks |-> f[x]]
Lookup(f, k, default) == IF k \in DOMAIN f THEN f[k] ELSE default
Min(a, b) == IF a < b THEN a ELSE b
Max(a, b) == IF a > b THEN a ELSE b

RECURSIVE SumLen(_)
SumLen(s) == IF s = <<>> THEN 0 ELSE Len(Head(s)) + 1 + SumLen(Tail(s))

---------------------------------------------------------------------------
(* Naming and validation                                                   *)

UserName(stem, ext) == [pre |-> <<>>, stem |-> stem, ext |-> ext]

\* the part of a name the regex matches with [-a-zA-Z0-9_.:]{1,200}
PrefixLen(name) == SumLen(name.pre) + Len(name.stem)

\* the extensions \.[json,HTML]+ matches (IGNORECASE) among those the model uses
RecognizedSuffix(ext) == ext \in {".json", ".html", ".JSON"}

InReservedNamespace(name) == "" \in Range(name.pre)      \* '::' in name

is_valid_name(name) ==
    /\ PrefixLen(name) \in 1..200
    /\ RecognizedSuffix(name.ext)
    /\ ~InReservedNamespace(name)

\* sys.getsizeof of a str: 49 bytes and one per character.  "large" and "huge"
\* stand for strings of 99000 and of 100000 characters.
PayloadChars(value) ==
    CASE value = "large" -> 99000
      [] value = "huge"  -> 100000
      [] OTHER           -> Len(value)

getsizeof(value) == IF value = None THEN 16 ELSE 49 + PayloadChars(value)

\* is_valid_value without the ceiling
is_valid_value_any(value) == TRUE

is_valid_value(value) == getsizeof(value) < 100000

is_valid_key(key) == key # None /\ Len(key) = Len("eae775f3-a33a-4105-ab8f-77336b0a3921")

\* the i-th key drawn from threezaconventions.crypto.random_key(): a fresh uuid
random_key(i) ==
    IF i < 10 THEN "00000000-0000-4000-8000-00000000000" \o ToString(i)
              ELSE "00000000-0000-4000-8000-0000000000" \o ToString(i)

\* random_name without the '.json'
random_name_bare(i) == UserName(random_key(i), "")

random_name(i) == UserName(random_key(i), ".json")

---------------------------------------------------------------------------
(* Cost based expiry                                                       *)

MAX_TTL_SECONDS == 604800
SECONDS_PER_MONTH == 2592000
REPLICATION == 3
FIXED_COST_bytes == 100

\* ceil(SECONDS_PER_MONTH / credits_per_month), where credits_per_month is
\* REPLICATION*(num_bytes+FIXED_COST_bytes)*COST_PER_MONTH_1b and COST_PER_MONTH_1b
\* is 10000/(10*1000*1000) = 1/1000; in integers, the division by REPLICATION first
cost_based_ttl(value) ==
    LET num_bytes == getsizeof(value)
        bytes == num_bytes + FIXED_COST_bytes
        budget == (SECONDS_PER_MONTH \div REPLICATION) * 1000
        ttl_seconds == (budget + bytes - 1) \div bytes
    IN  Min(ttl_seconds, MAX_TTL_SECONDS)

HISTORY_TTL(ttl) == Min(Max(2 * 60 * 60, ttl), 60 * 60 * 24)

DELAY_SECONDS == <<5, 60>>

name_of_copy(salt, name) == [name EXCEPT !.pre = <<salt>> \o name.pre]

DESTINATION(delay_seconds, name) ==
    [name EXCEPT !.pre = <<"delayed", "", ToString(delay_seconds)>> \o name.pre]

---------------------------------------------------------------------------
(* The redis server, as one record, for the operators that thread it       *)
(* through the commands of a pipeline.                                     *)

Redis == [ownership |-> ownership, names |-> names, store |-> store,
          subscribers |-> subscribers, messages |-> messages,
          history |-> history, promises |-> promises, rand |-> rand]

Becomes(r) ==
    /\ ownership' = r.ownership
    /\ names' = r.names
    /\ store' = r.store
    /\ subscribers' = r.subscribers
    /\ messages' = r.messages
    /\ history' = r.history
    /\ promises' = r.promises
    /\ rand' = r.rand

RECURSIVE Promise(_, _, _, _, _)
Promise(buckets, d, source, name, t) ==
    IF d > Len(DELAY_SECONDS) THEN buckets
    ELSE LET delay_seconds == DELAY_SECONDS[d]
             PROMISE == t + delay_seconds
             old == Lookup(buckets, PROMISE, [members |-> {}, exp |-> NoExpiry])
             member == [source |-> source, destination |-> DESTINATION(delay_seconds, name)]
         IN  Promise(Put(buckets, PROMISE,
                         [members |-> old.members \cup {member},
                          exp |-> t + delay_seconds + 60]),
                     d + 1, source, name, t)

\* _modify_page that writes the copy and not the live value
modify_page_copy_only(r, ndx, name, value, t) ==
    LET ttl == cost_based_ttl(value)
        copy == name_of_copy(random_key(r.rand + 1), name)
    IN  <<[r EXCEPT
             !.store = Put(@, copy, [value |-> value, exp |-> t + HISTORY_TTL(ttl)]),
             !.history = Put(@, name, Append(Lookup(@, name, <<>>), copy)),
             !.promises = Promise(@, 1, copy, name, t),
             !.rand = @ + 1],
          [ndx |-> ndx, name |-> name, value |-> value, write_key |-> None,
           new |-> FALSE, obscure |-> FALSE, copy |-> copy]>>

\* _modify_page that leaves a live value the lifetime it has
modify_page_keep_ttl(r, ndx, name, value, t) ==
    LET ttl == cost_based_ttl(value)
        copy == name_of_copy(random_key(r.rand + 1), name)
        exp == IF name \in DOMAIN r.store THEN r.store[name].exp ELSE t + ttl
    IN  <<[r EXCEPT
             !.store = Put(Put(@, name, [value |-> value, exp |-> exp]),
                           copy, [value |-> value, exp |-> t + HISTORY_TTL(ttl)]),
             !.history = Put(@, name, Append(Lookup(@, name, <<>>), copy)),
             !.promises = Promise(@, 1, copy, name, t),
             !.rand = @ + 1],
          [ndx |-> ndx, name |-> name, value |-> value, write_key |-> None,
           new |-> FALSE, obscure |-> FALSE, copy |-> copy]>>

\* _modify_page, its commands executed: <<the server afterwards, the intent>>
modify_page(r, ndx, name, value, t) ==
    LET ttl == cost_based_ttl(value)
        copy == name_of_copy(random_key(r.rand + 1), name)
        intent == [ndx |-> ndx, name |-> name, value |-> value, write_key |-> None,
                   new |-> FALSE, obscure |-> FALSE, copy |-> copy]
    IN  <<[r EXCEPT
             !.store = Put(Put(@, name, [value |-> value, exp |-> t + ttl]),
                           copy, [value |-> value, exp |-> t + HISTORY_TTL(ttl)]),
             !.history = Put(@, name, Append(Lookup(@, name, <<>>), copy)),
             !.promises = Promise(@, 1, copy, name, t),
             !.rand = @ + 1],
          intent>>

\* _new_page
new_page(r, ndx, name, value, write_key, t) ==
    LET owned == [r EXCEPT !.ownership = Put(@, name, write_key),
                           !.names = @ \cup {name}]
        m == modify_page(owned, ndx, name, value, t)
    IN  <<m[1], [m[2] EXCEPT !.new = TRUE, !.write_key = write_key]>>

\* _new_obscure_page
new_obscure_page(r, ndx, name, value, write_key, t) ==
    LET m == new_page(r, ndx, name, value, write_key, t)
    IN  <<m[1], [m[2] EXCEPT !.obscure = TRUE]>>

---------------------------------------------------------------------------
(* set(): the three phases of _set, each a round trip or two.  An entry    *)
(* of the batch is [ndx, name, value, write_key]; a phase gives the        *)
(* server after its pipeline ran, what it executed and rejected, the       *)
(* entries left to the next phase, and the exception it raised, if any.    *)

Entry(ndx, item) ==
    [ndx |-> ndx, name |-> item.name, value |-> item.value, write_key |-> item.write_key]

Entries(items) == [i \in DOMAIN items |-> Entry(i - 1, items[i])]

Phase(r, executed, rejected, pending, raised) ==
    [r |-> r, executed |-> executed, rejected |-> rejected, pending |-> pending,
     raised |-> raised]

Rejected(e, error) == [ndx |-> e.ndx, name |-> e.name, error |-> error]

\* the loop of _pipelined_set_obscure over entries[i..], acc the Phase so far
RECURSIVE obscure_loop(_, _, _, _)
obscure_loop(entries, i, acc, t) ==
    IF i > Len(entries) \/ acc.raised # None THEN acc
    ELSE LET e == entries[i]
             drawn == (e.write_key = None)
             write_key == IF drawn THEN random_key(acc.r.rand + 1) ELSE e.write_key
             r1 == IF drawn THEN [acc.r EXCEPT !.rand = @ + 1] ELSE acc.r
             new_name == random_name(r1.rand + 1)
             page == new_obscure_page([r1 EXCEPT !.rand = @ + 1], e.ndx, new_name,
                                      e.value, write_key, t)
         IN  obscure_loop(entries, i + 1,
               IF ~is_valid_value(e.value)
                 THEN [acc EXCEPT !.raised = "TypeError"]    \* str + type, line 273
               ELSE IF e.name = NoName
                 THEN IF ~is_valid_key(write_key)
                        THEN [acc EXCEPT !.r = r1,
                                         !.rejected = Append(@, Rejected(e, "invalid write_key"))]
                        ELSE [acc EXCEPT !.r = page[1], !.executed = Append(@, page[2])]
               ELSE IF ~is_valid_name(e.name)
                 THEN [acc EXCEPT !.rejected = Append(@, Rejected(e, "invalid name"))]
               ELSE [acc EXCEPT !.pending = Append(@, e)],
               t)

\* _pipelined_set_obscure: nothing of the pipeline runs when the loop raised
pipelined_set_obscure(r, entries, t) ==
    LET done == obscure_loop(entries, 1, Phase(r, <<>>, <<>>, <<>>, None), t)
    IN  IF done.raised # None THEN [done EXCEPT !.r = r] ELSE done

\* an existence check that asks for the live key, not the ownership record
new_exists_live(r, entries) == [i \in DOMAIN entries |-> entries[i].name \in DOMAIN r.store]

\* the hexists pipeline of _pipelined_set_new
new_exists(r, entries) == [i \in DOMAIN entries |-> entries[i].name \in DOMAIN r.ownership]

RECURSIVE new_loop(_, _, _, _, _)
new_loop(entries, exists, i, acc, t) ==
    IF i > Len(entries) THEN acc
    ELSE LET e == entries[i]
             drawn == (e.write_key = None)
             write_key == IF drawn THEN random_key(acc.r.rand + 1) ELSE e.write_key
             r1 == IF drawn THEN [acc.r EXCEPT !.rand = @ + 1] ELSE acc.r
             page == new_page(r1, e.ndx, e.name, e.value, write_key, t)
         IN  new_loop(entries, exists, i + 1,
               IF exists[i]
                 THEN [acc EXCEPT !.pending = Append(@, e)]
               ELSE IF ~is_valid_key(write_key)
                 THEN [acc EXCEPT !.r = r1,
                                  !.rejected = Append(@, Rejected(e, "invalid write_key"))]
               ELSE [acc EXCEPT !.r = page[1], !.executed = Append(@, page[2])],
               t)

\* _pipelined_set_new after its existence check
pipelined_set_new(r, entries, exists, t) ==
    new_loop(entries, exists, 1, Phase(r, <<>>, <<>>, <<>>, None), t)

\* _write_keys answering with the key the caller supplied
write_keys_echo(r, entries) == [i \in DOMAIN entries |-> entries[i].write_key]

\* _write_keys: hmget of the OWNERSHIP hash
write_keys(r, entries) ==
    [i \in DOMAIN entries |-> Lookup(r.ownership, entries[i].name, None)]

RECURSIVE existing_loop(_, _, _, _, _)
existing_loop(entries, official_write_keys, i, acc, t) ==
    IF i > Len(entries) \/ acc.raised # None THEN acc
    ELSE LET e == entries[i]
             page == modify_page(acc.r, e.ndx, e.name, e.value, t)
         IN  existing_loop(entries, official_write_keys, i + 1,
               IF e.write_key = official_write_keys[i]
                 THEN [acc EXCEPT !.r = page[1],
                                  !.executed = Append(@, [page[2] EXCEPT !.write_key = e.write_key])]
               ELSE IF official_write_keys[i] = None
                 THEN [acc EXCEPT !.raised = "TypeError"]    \* None[-4:], line 355
               ELSE [acc EXCEPT !.rejected =
                        Append(@, Rejected(e, "write_key does not match page_key on record"))],
               t)

\* _pipelined_set_existing after its _write_keys
pipelined_set_existing(r, entries, official_write_keys, t) ==
    LET done == existing_loop(entries, official_write_keys, 1,
                              Phase(r, <<>>, <<>>, <<>>, None), t)
    IN  IF done.raised # None THEN [done EXCEPT !.r = r] ELSE done

\* Every intent is the one dict that is the default of _modify_page's parameter
\* intent (line 452): each entry of a list of intents reads as the intent
\* updated last, which is the last of the list.
SharedIntent(executed) == [i \in DOMAIN executed |-> executed[Len(executed)]]

\* the smembers pipeline of _propagate_to_subscribers
subscribers_sets(r, modified_names) ==
    [i \in DOMAIN modified_names |-> Lookup(r.subscribers, modified_names[i], {})]

RECURSIVE propagate_loop(_, _, _, _)
propagate_loop(box, intents, sets, i) ==
    IF i > Len(intents) THEN box
    ELSE LET sender == intents[i].name
             value == intents[i].value
         IN  propagate_loop(
               [b \in DOMAIN box \cup sets[i] |->
                  IF b \in sets[i] THEN Put(Lookup(box, b, <<>>), sender, value) ELSE box[b]],
               intents, sets, i + 1)

\* the hset pipeline of _propagate_to_subscribers
propagate_to_subscribers(r, intents, sets) ==
    [r EXCEPT !.messages = propagate_loop(@, intents, sets, 1)]

\* _coerce_outputs: the list is sorted by ndx
RECURSIVE SortedByNdx(_)
SortedByNdx(executed) ==
    IF executed = <<>> THEN <<>>
    ELSE LET least == CHOOSE i \in DOMAIN executed :
                        \A j \in DOMAIN executed :
                           executed[i].ndx < executed[j].ndx
                           \/ (executed[i].ndx = executed[j].ndx /\ i <= j)
             rest == [k \in 1..(Len(executed) - 1) |->
                        IF k < least THEN executed[k] ELSE executed[k + 1]]
         IN  <<executed[least]>> \o SortedByNdx(rest)

coerce_outputs(executed) ==
    LET sorted == SortedByNdx(executed)
    IN  [i \in DOMAIN sorted |-> [name |-> sorted[i].name, write_key |-> sorted[i].write_key]]

---------------------------------------------------------------------------
(* The public methods, each as the whole call                              *)

\* set(), what it returns from the execution log of _set:
\* [r, ret, raised, executed, rejected]
set_return(r, propagated, obscure, new, existing, access, singular) ==
    IF obscure.raised # None THEN
        [r |-> r, ret |-> None, raised |-> obscure.raised, executed |-> <<>>,
         rejected |-> <<>>]
    ELSE IF existing.raised # None THEN
        [r |-> new.r, ret |-> None, raised |-> existing.raised,
         executed |-> obscure.executed \o new.executed,
         rejected |-> obscure.rejected \o new.rejected]
    ELSE
        [r |-> propagated,
         ret |-> IF ~singular THEN access
                 ELSE IF access = <<>> THEN None ELSE access[1],
         raised |-> IF singular /\ access = <<>> THEN "IndexError" ELSE None,   \* access[0]
         executed |-> obscure.executed \o new.executed \o existing.executed,
         rejected |-> obscure.rejected \o new.rejected \o existing.rejected]

\* _set once its three phases have run: the modified names are propagated
set_after_existing(r, obscure, new, existing, singular) ==
    set_return(r,
        propagate_to_subscribers(existing.r, SharedIntent(existing.executed),
            subscribers_sets(existing.r,
                [i \in DOMAIN existing.executed |-> SharedIntent(existing.executed)[i].name])),
        obscure, new, existing,
        coerce_outputs(SharedIntent(obscure.executed \o new.executed \o existing.executed)),
        singular)

\* _set from its third phase
set_after_new(r, obscure, new, singular, t) ==
    set_after_existing(r, obscure, new,
        pipelined_set_existing(new.r, new.pending, write_keys(new.r, new.pending), t),
        singular)

\* _set from its second phase
set_after_obscure(r, obscure, singular, t) ==
    set_after_new(r, obscure,
        pipelined_set_new(obscure.r, obscure.pending,
                          new_exists(obscure.r, obscure.pending), t),
        singular, t)

\* set() and _set
set(r, items, singular, t) ==
    set_after_obscure(r, pipelined_set_obscure(r, Entries(items), t), singular, t)

\* get(): the value of each name, None for an absent key
get(r, name) == IF name \in DOMAIN r.store THEN r.store[name].value ELSE None

\* _are_valid_write_keys
are_valid_write_keys(r, pairs) ==
    [i \in DOMAIN pairs |-> pairs[i].write_key = Lookup(r.ownership, pairs[i].name, None)]

\* the hdel pipeline of _delete: one hdel per subscriber of each name, of the
\* field name in the mailbox MESSAGES+name
messages_removal(r, kill) ==
    [r EXCEPT !.messages =
        [b \in DOMAIN @ |->
            IF b \in kill /\ Lookup(r.subscribers, b, {}) # {} THEN Drop(@[b], {b}) ELSE @[b]]]

\* _delete without the hdel of OWNERSHIP
delete_names_keep_ownership(r, kill) ==
    LET m == messages_removal(r, kill)
    IN  [m EXCEPT !.subscribers = Drop(@, kill),
                  !.messages = Drop(@, kill),
                  !.store = Drop(@, kill),
                  !.history = Drop(@, kill),
                  !.names = @ \ kill]

\* _delete
delete_names(r, kill) ==
    LET m == messages_removal(r, kill)
    IN  [m EXCEPT !.ownership = Drop(@, kill),
                  !.subscribers = Drop(@, kill),
                  !.messages = Drop(@, kill),
                  !.store = Drop(@, kill),
                  !.history = Drop(@, kill),
                  !.names = @ \ kill]

\* delete(): [r, raised]
delete(r, pairs) ==
    LET are_valid == are_valid_write_keys(r, pairs)
        authorized_kill_list == {pairs[i].name : i \in {j \in DOMAIN pairs : are_valid[j]}}
    IN  IF authorized_kill_list = {} THEN [r |-> r, raised |-> "TypeError"]  \* _delete()
        ELSE IF \E name \in authorized_kill_list : InReservedNamespace(name)
            THEN [r |-> r, raised |-> "Exception"]
        ELSE [r |-> delete_names(r, authorized_kill_list), raised |-> None]

\* _subscribe
subscribe(r, publisher, subscriber) ==
    [r EXCEPT !.subscribers = Put(@, publisher, Lookup(@, publisher, {}) \cup {subscriber})]

\* _unsubscribe: its srem names subsriber, which is no name of its scope, so
\* the call raises NameError before the command reaches the server
unsubscribe(r, publisher, subscriber) == [r |-> r, raised |-> "NameError"]

\* admin_garbage_collection: the size of its sample, int(fraction * num_keys)
\* with the default fraction of one hundredth
num_survey(num_keys) == Min(100, Max(20, num_keys \div 100))

\* srandmember with a positive count: the samples the server may answer with,
\* distinct members, as many as asked for or all there are
srandmember(members, num) ==
    {sample \in SUBSET members : Cardinality(sample) = Min(num, Cardinality(members))}

\* exists of several keys: how many of them the server holds
num_exists(r, sample) == Cardinality(sample \cap DOMAIN r.store)

\* the exists pipeline of _randomly_find_orphans
orphans_of(r, sample) == {name \in sample : name \notin DOMAIN r.store}

\* _randomly_find_orphans that never finds one
randomly_find_none(r, sample) == [found |-> FALSE, orphans |-> {}]

\* _randomly_find_orphans, which returns None unless the count of exists falls
\* short of the sample
randomly_find_orphans(r, sample) ==
    IF sample # {} /\ num_exists(r, sample) < Cardinality(sample)
      THEN [found |-> TRUE, orphans |-> orphans_of(r, sample)]
      ELSE [found |-> FALSE, orphans |-> {}]

\* admin_garbage_collection that counts the orphans and leaves them
collect_count_only(r, search) ==
    [r |-> r, ret |-> Cardinality(search.orphans), raised |-> None]

\* admin_garbage_collection once the orphans are known: [r, ret, raised]
collect(r, search) ==
    IF ~search.found THEN [r |-> r, ret |-> 0, raised |-> None]
    ELSE IF search.orphans = {} THEN [r |-> r, ret |-> 0, raised |-> "TypeError"]  \* _delete()
    ELSE IF \E name \in search.orphans : InReservedNamespace(name)
        THEN [r |-> r, ret |-> 0, raised |-> "Exception"]
    ELSE [r |-> delete_names(r, search.orphans), ret |-> Cardinality(search.orphans),
          raised |-> None]

\* admin_garbage_collection
admin_garbage_collection(r, sample) == collect(r, randomly_find_orphans(r, sample))

lookback_seconds == 65

\* admin_promises: the buckets it looks for, those of the last seconds
candidates(t) == {t - seconds : seconds \in 0..(lookback_seconds - 1)}

\* the smembers pipeline of admin_promises: the buckets found, each with its
\* promises
collections(r, t) == [PROMISE \in candidates(t) \cap DOMAIN r.promises |-> r.promises[PROMISE].members]

\* the destinations of the promises of the buckets read
destinations(read) == {promise.destination : promise \in UNION Range(read)}

\* the bucket whose promise for the destination is the last of the list:
\* the list runs from the latest bucket to the earliest
last_bucket(read, destination) ==
    CHOOSE PROMISE \in DOMAIN read :
        /\ \E promise \in read[PROMISE] : promise.destination = destination
        /\ \A other \in DOMAIN read :
              (\E promise \in read[other] : promise.destination = destination)
                  => PROMISE <= other

\* dict(zip(destinations, source_values)) keeps, for each destination, the
\* last promise of the list; within a bucket smembers answers in any order
mappings(read) ==
    {mapping \in [destinations(read) -> UNION Range(read)] :
        \A destination \in destinations(read) :
            /\ mapping[destination].destination = destination
            /\ mapping[destination] \in read[last_bucket(read, destination)]}

RECURSIVE mset(_, _, _, _)
mset(contents, mapping, values, todo) ==
    IF todo = {} THEN contents
    ELSE LET destination == CHOOSE d \in todo : TRUE
         IN  mset(Put(contents, destination,
                      [value |-> values[destination], exp |-> NoExpiry]),
                  mapping, values, todo \ {destination})

\* the mget of the sources of admin_promises
source_values(r, mapping) == [destination \in DOMAIN mapping |-> get(r, mapping[destination].source)]

\* admin_promises from its mget, the buckets deleted: [r, ret, raised]
copy_promised(r, mapping, values) ==
    IF DOMAIN mapping = {} THEN [r |-> r, ret |-> 0, raised |-> "TypeError"]   \* mget()
    ELSE IF \E destination \in DOMAIN mapping : values[destination] = None
        THEN [r |-> r, ret |-> 0, raised |-> "DataError"]                      \* mset of None
    ELSE [r |-> [r EXCEPT !.store = mset(@, mapping, values, DOMAIN mapping)],
          ret |-> Cardinality(DOMAIN mapping), raised |-> None]

\* the delete of the buckets of admin_promises
delete_candidates(r, t) == [r EXCEPT !.promises = Drop(@, candidates(t))]

\* admin_promises
admin_promises(r, t, mapping) ==
    copy_promised(delete_candidates(r, t), mapping,
                  source_values(delete_candidates(r, t), mapping))

\* the server drops the keys whose time to live has run out
expire(r, t) ==
    [r EXCEPT !.store = Drop(@, {k \in DOMAIN @ : @[k].exp # NoExpiry /\ @[k].exp <= t}),
              !.promises = Drop(@, {k \in DOMAIN @ : @[k].exp # NoExpiry /\ @[k].exp <= t})]

---------------------------------------------------------------------------
(* What the clients ask for                                                *)

A == UserName("a", ".json")
B == UserName("b", ".json")
NoSuffix == UserName("c", ".txt")                               \* not a valid name
Reserved == [pre |-> <<"messages", "">>, stem |-> "b", ext |-> ".json"]   \* messages::b.json

K1 == "eae775f3-a33a-4105-ab8f-77336b0a3921"
K2 == "5c1f3d70-7a0b-4c55-9d1e-0b6f1a2c3d4e"
ShortKey == "not-a-uuid"

Item(name, value, write_key) == [name |-> name, value |-> value, write_key |-> write_key]

\* the entries of a set() in the singular
Items ==
    {Item(A, "v1", K1), Item(A, "v2", K1), Item(A, "v2", K2), Item(A, "v2", None),
     Item(A, "huge", K1), Item(A, "v1", ShortKey),
     Item(B, "v1", K2), Item(B, "v2", K2),
     Item(NoName, "v1", None), Item(NoName, "v2", K1), Item(NoName, "huge", K1),
     Item(NoName, "v1", ShortKey), Item(NoSuffix, "v1", K1)}

\* the entries of a batched set()
BatchItems ==
    {Item(A, "v1", K1), Item(A, "v2", K2), Item(B, "v2", K2), Item(NoName, "v1", None),
     Item(B, "huge", K2)}

RECURSIVE SeqsUpTo(_, _)
SeqsUpTo(S, n) ==
    IF n = 0 THEN {<<>>}
    ELSE LET shorter == SeqsUpTo(S, n - 1)
         IN  shorter \cup {Append(s, x) : s \in {q \in shorter : Len(q) = n - 1}, x \in S}

Batches == SeqsUpTo(BatchItems, MaxBatch) \ {<<>>}

DeleteNames == {A, B, Reserved}
DeletePairs == [name : DeleteNames, write_key : {K1, K2, None}]

TickSeconds == {MAX_TTL_SECONDS}

---------------------------------------------------------------------------
(* The actions: one public call each, run from call to return.  call holds *)
(* the arguments and the outcome of the call, and the server as the call   *)
(* found it, until the caller has taken the outcome.                       *)

Idle == [op |-> "idle"]

Set(items, singular) ==
    LET done == set(Redis, items, singular, now)
    IN  /\ call = Idle
        /\ done.r.rand <= MaxRandom
        /\ Becomes(done.r)
        /\ call' = [op |-> "set", singular |-> singular, items |-> items, ret |-> done.ret,
                    raised |-> done.raised, executed |-> done.executed,
                    rejected |-> done.rejected, before |-> Redis]
        /\ UNCHANGED <<now, ticks, proc>>

Get(name) ==
    /\ call = Idle
    /\ call' = [op |-> "get", name |-> name, ret |-> get(Redis, name), before |-> Redis]
    /\ UNCHANGED <<ownership, names, store, subscribers, messages, history, promises, now,
                   ticks, rand, proc>>

Delete(pairs) ==
    LET done == delete(Redis, pairs)
    IN  /\ call = Idle
        /\ Becomes(done.r)
        /\ call' = [op |-> "delete", pairs |-> pairs, raised |-> done.raised,
                    before |-> Redis]
        /\ UNCHANGED <<now, ticks, proc>>

Subscribe(publisher, subscriber) ==
    /\ call = Idle
    /\ Becomes(subscribe(Redis, publisher, subscriber))
    /\ call' = [op |-> "subscribe", publisher |-> publisher, subscriber |-> subscriber,
                before |-> Redis]
    /\ UNCHANGED <<now, ticks, proc>>

Unsubscribe(publisher, subscriber) ==
    /\ call = Idle
    /\ Becomes(unsubscribe(Redis, publisher, subscriber).r)
    /\ call' = [op |-> "unsubscribe", publisher |-> publisher, subscriber |-> subscriber,
                raised |-> unsubscribe(Redis, publisher, subscriber).raised,
                before |-> Redis]
    /\ UNCHANGED <<now, ticks, proc>>

GarbageCollection(sample) ==
    /\ call = Idle
    /\ Becomes(admin_garbage_collection(Redis, sample).r)
    /\ call' = [op |-> "gc", sample |-> sample,
                ret |-> admin_garbage_collection(Redis, sample).ret,
                raised |-> admin_garbage_collection(Redis, sample).raised,
                before |-> Redis]
    /\ UNCHANGED <<now, ticks, proc>>

Promises(mapping) ==
    /\ call = Idle
    /\ Becomes(admin_promises(Redis, now, mapping).r)
    /\ call' = [op |-> "promises", mapping |-> mapping,
                ret |-> admin_promises(Redis, now, mapping).ret,
                raised |-> admin_promises(Redis, now, mapping).raised,
                before |-> Redis]
    /\ UNCHANGED <<now, ticks, proc>>

\* the clock moves on, as Tick, up to MaxElapse times
Elapse(seconds) ==
    /\ call = Idle
    /\ ticks < MaxElapse
    /\ now' = now + seconds
    /\ ticks' = ticks + 1
    /\ Becomes(expire(Redis, now + seconds))
    /\ UNCHANGED <<call, proc>>

\* the caller takes the outcome of its call
Return ==
    /\ call # Idle
    /\ call' = Idle
    /\ UNCHANGED <<ownership, names, store, subscribers, messages, history, promises, now,
                   ticks, rand, proc>>

Tick(seconds) ==
    /\ call = Idle
    /\ ticks < MaxTicks
    /\ now' = now + seconds
    /\ ticks' = ticks + 1
    /\ Becomes(expire(Redis, now + seconds))
    /\ UNCHANGED <<call, proc>>

Init ==
    /\ ownership = <<>>
    /\ names = {}
    /\ store = <<>>
    /\ subscribers = <<>>
    /\ messages = <<>>
    /\ history = <<>>
    /\ promises = <<>>
    /\ now = StartTime
    /\ ticks = 0
    /\ rand = 0
    /\ call = Idle
    /\ proc = <<>>

Next ==
    \/ \E item \in Items : Set(<<item>>, TRUE)
    \/ \E items \in Batches : Set(items, FALSE)
    \/ \E name \in {A, B} \cup DOMAIN ownership : Get(name)
    \/ \E pair \in DeletePairs : Delete(<<pair>>)
    \/ \E publisher \in {A, B} : \E subscriber \in {A, B} \ {publisher} :
          Subscribe(publisher, subscriber)
    \/ \E publisher \in {A, B} : \E subscriber \in {A, B} \ {publisher} :
          Unsubscribe(publisher, subscriber)
    \/ \E seconds \in TickSeconds : Tick(seconds)
    \/ Return

Spec == Init /\ [][Next]_vars

---------------------------------------------------------------------------
(* The same calls with the two administrative methods and a clock that     *)
(* moves by the delays, for what time does to a page.                      *)

TimeItems ==
    {Item(A, "v1", K1), Item(A, "large", K1), Item(A, "v2", K2)}

ElapseSeconds == {5, 55, 60, MAX_TTL_SECONDS}

NextTime ==
    \/ \E item \in TimeItems : Set(<<item>>, TRUE)
    \/ \E name \in {A, DESTINATION(5, A), DESTINATION(60, A)} : Get(name)
    \/ \E sample \in srandmember(names, num_survey(Cardinality(names))) :
          GarbageCollection(sample)
    \/ \E mapping \in mappings(collections(Redis, now)) : Promises(mapping)
    \/ \E seconds \in ElapseSeconds : Elapse(seconds)
    \/ Return

SpecTime == Init /\ [][NextTime]_vars

---------------------------------------------------------------------------
(* The collector run again and again once the writes have ended: pages are *)
(* written, the clock moves once, past the lifetime of some or all of      *)
(* them, and from then on only admin_garbage_collection is called, as the  *)
(* module comment asks, every fifteen minutes.                             *)

CollectItems == {Item(A, "v1", K1), Item(A, "v2", K1), Item(B, "large", K2)}

CollectSeconds == {cost_based_ttl("large"), MAX_TTL_SECONDS}

Collection == \E sample \in srandmember(names, num_survey(Cardinality(names))) :
                 GarbageCollection(sample)

NextCollect ==
    \/ \E item \in CollectItems : ticks = 0 /\ Set(<<item>>, TRUE)
    \/ \E seconds \in CollectSeconds : Tick(seconds)
    \/ Collection
    \/ Return

SpecCollect == Init /\ [][NextCollect]_vars /\ WF_vars(Collection) /\ WF_vars(Return)

---------------------------------------------------------------------------
(* Calls taken round trip by round trip.  proc holds, for each call under  *)
(* way, where it stands and what it has read so far; a pipeline is one     *)
(* step, as the server runs it whole.  A call that has ended stays in proc *)
(* with what it did until Finish takes it away.                            *)

At(p, pc) == p \in DOMAIN proc /\ proc[p].pc = pc

ServerUnchanged ==
    UNCHANGED <<ownership, names, store, subscribers, messages, history, promises, rand>>

\* admin_promises: the exists pipeline, whose answer the method does not use
\* (if exists tests the list), and the clock read before it
PromisesExists(e) ==
    /\ call = Idle
    /\ e \notin DOMAIN proc
    /\ proc' = Put(proc, e, [pc |-> "smembers", t |-> now])
    /\ ServerUnchanged
    /\ UNCHANGED <<now, ticks, call>>

\* admin_promises: the smembers pipeline
PromisesSmembers(e) ==
    /\ call = Idle
    /\ At(e, "smembers")
    /\ \E mapping \in mappings(collections(Redis, proc[e].t)) :
          proc' = Put(proc, e, [pc |-> "delete", t |-> proc[e].t,
                               read |-> collections(Redis, proc[e].t), mapping |-> mapping])
    /\ ServerUnchanged
    /\ UNCHANGED <<now, ticks, call>>

\* admin_promises: the delete of the buckets
PromisesDelete(e) ==
    /\ call = Idle
    /\ At(e, "delete")
    /\ Becomes(delete_candidates(Redis, proc[e].t))
    /\ proc' = Put(proc, e, [proc[e] EXCEPT !.pc = "mget"])
    /\ UNCHANGED <<now, ticks, call>>

\* admin_promises: the mget of the sources, which raises when there is none
PromisesMget(e) ==
    /\ call = Idle
    /\ At(e, "mget")
    /\ proc' = Put(proc, e,
                   IF DOMAIN proc[e].mapping = {}
                     THEN [pc |-> "done", read |-> proc[e].read, copied |-> {},
                           raised |-> "TypeError"]
                     ELSE [pc |-> "mset", read |-> proc[e].read, mapping |-> proc[e].mapping,
                           values |-> source_values(Redis, proc[e].mapping)])
    /\ ServerUnchanged
    /\ UNCHANGED <<now, ticks, call>>

\* admin_promises: the mset of the destinations
PromisesMset(e) ==
    /\ call = Idle
    /\ At(e, "mset")
    /\ Becomes(copy_promised(Redis, proc[e].mapping, proc[e].values).r)
    /\ proc' = Put(proc, e,
                   [pc |-> "done", read |-> proc[e].read,
                    copied |-> IF copy_promised(Redis, proc[e].mapping, proc[e].values).raised = None
                                 THEN Range(proc[e].mapping) ELSE {},
                    raised |-> copy_promised(Redis, proc[e].mapping, proc[e].values).raised])
    /\ UNCHANGED <<now, ticks, call>>

\* the caller of a call that has ended takes its outcome
Finish(p) ==
    /\ call = Idle
    /\ At(p, "done")
    /\ proc' = Drop(proc, {p})
    /\ ServerUnchanged
    /\ UNCHANGED <<now, ticks, call>>

---------------------------------------------------------------------------
(* Two runs of admin_promises that may overlap, while a page is written    *)
(* and its promises fall due.                                              *)

Executors == {"e1", "e2"}

NextExecutors ==
    \/ \E item \in {Item(A, "v1", K1)} : Set(<<item>>, TRUE)
    \/ \E seconds \in {5} : Elapse(seconds)
    \/ Return
    \/ \E e \in Executors :
          \/ PromisesExists(e)
          \/ PromisesSmembers(e)
          \/ PromisesDelete(e)
          \/ PromisesMget(e)
          \/ PromisesMset(e)
          \/ Finish(e)

SpecExecutors == Init /\ [][NextExecutors]_vars

---------------------------------------------------------------------------
(* The calls of a client that names the key of a history copy              *)

\* the key of the copy that the first write of all makes, if it writes A
CopyOfA == name_of_copy(random_key(1), A)

CopyItems == {Item(A, "v1", K1), Item(A, "v2", K1), Item(CopyOfA, "v2", K2)}

CopyPairs ==
    {[name |-> CopyOfA, write_key |-> None], [name |-> CopyOfA, write_key |-> K1],
     [name |-> A, write_key |-> K1]}

NextCopy ==
    \/ \E item \in CopyItems : Set(<<item>>, TRUE)
    \/ \E pair \in CopyPairs : Delete(<<pair>>)
    \/ \E name \in {A, CopyOfA} : Get(name)
    \/ \E seconds \in {60} : Elapse(seconds)
    \/ Return

SpecCopy == Init /\ [][NextCopy]_vars

---------------------------------------------------------------------------
(* set, delete and admin_garbage_collection round trip by round trip, for  *)
(* the calls of several clients that overlap.  A record of proc carries    *)
(* the method in op.  A pipeline runs whole, as one step, also where the   *)
(* code asks for no transaction.                                           *)

\* _set: the pipeline of _pipelined_set_obscure, or the exception of its loop
SetObscure(p, items) ==
    /\ call = Idle
    /\ p \notin DOMAIN proc
    /\ pipelined_set_obscure(Redis, Entries(items), now).r.rand <= MaxRandom
    /\ Becomes(pipelined_set_obscure(Redis, Entries(items), now).r)
    /\ proc' = Put(proc, p,
                   IF pipelined_set_obscure(Redis, Entries(items), now).raised # None
                     THEN [pc |-> "done", op |-> "set", ret |-> None,
                           raised |-> pipelined_set_obscure(Redis, Entries(items), now).raised]
                     ELSE [pc |-> "hexists", op |-> "set",
                           pending |-> pipelined_set_obscure(Redis, Entries(items), now).pending,
                           executed |-> pipelined_set_obscure(Redis, Entries(items), now).executed])
    /\ UNCHANGED <<now, ticks, call>>

\* _pipelined_set_new: the hexists pipeline
SetExists(p) ==
    /\ call = Idle
    /\ At(p, "hexists")
    /\ proc' = Put(proc, p, [pc |-> "new", op |-> "set", pending |-> proc[p].pending,
                             executed |-> proc[p].executed,
                             exists |-> new_exists(Redis, proc[p].pending)])
    /\ ServerUnchanged
    /\ UNCHANGED <<now, ticks, call>>

\* _pipelined_set_new: the pipeline of the new pages
SetNew(p) ==
    /\ call = Idle
    /\ At(p, "new")
    /\ pipelined_set_new(Redis, proc[p].pending, proc[p].exists, now).r.rand <= MaxRandom
    /\ Becomes(pipelined_set_new(Redis, proc[p].pending, proc[p].exists, now).r)
    /\ proc' = Put(proc, p,
                   [pc |-> "hmget", op |-> "set",
                    pending |-> pipelined_set_new(Redis, proc[p].pending, proc[p].exists, now).pending,
                    executed |-> proc[p].executed \o
                       pipelined_set_new(Redis, proc[p].pending, proc[p].exists, now).executed])
    /\ UNCHANGED <<now, ticks, call>>

\* _pipelined_set_existing: the hmget of _write_keys
SetWriteKeys(p) ==
    /\ call = Idle
    /\ At(p, "hmget")
    /\ proc' = Put(proc, p, [pc |-> "modify", op |-> "set", pending |-> proc[p].pending,
                             executed |-> proc[p].executed,
                             official_write_keys |-> write_keys(Redis, proc[p].pending)])
    /\ ServerUnchanged
    /\ UNCHANGED <<now, ticks, call>>

\* _pipelined_set_existing: the pipeline of the modified pages, or the
\* exception of its loop
SetExisting(p) ==
    /\ call = Idle
    /\ At(p, "modify")
    /\ pipelined_set_existing(Redis, proc[p].pending, proc[p].official_write_keys, now).r.rand
          <= MaxRandom
    /\ Becomes(pipelined_set_existing(Redis, proc[p].pending, proc[p].official_write_keys, now).r)
    /\ proc' = Put(proc, p,
          IF pipelined_set_existing(Redis, proc[p].pending, proc[p].official_write_keys,
                                    now).raised # None
            THEN [pc |-> "done", op |-> "set", ret |-> None,
                  raised |-> pipelined_set_existing(Redis, proc[p].pending,
                                                    proc[p].official_write_keys, now).raised]
            ELSE [pc |-> "subscribers", op |-> "set", executed |-> proc[p].executed,
                  modified |-> pipelined_set_existing(Redis, proc[p].pending,
                                                      proc[p].official_write_keys, now).executed])
    /\ UNCHANGED <<now, ticks, call>>

\* _propagate_to_subscribers: the smembers pipeline
SetSmembers(p) ==
    /\ call = Idle
    /\ At(p, "subscribers")
    /\ proc' = Put(proc, p,
          [pc |-> "propagate", op |-> "set", executed |-> proc[p].executed,
           modified |-> proc[p].modified,
           sets |-> subscribers_sets(Redis,
                       [i \in DOMAIN proc[p].modified |-> SharedIntent(proc[p].modified)[i].name])])
    /\ ServerUnchanged
    /\ UNCHANGED <<now, ticks, call>>

\* _propagate_to_subscribers: the hset pipeline, and what set() returns, in
\* the singular
SetPropagate(p) ==
    /\ call = Idle
    /\ At(p, "propagate")
    /\ Becomes(propagate_to_subscribers(Redis, SharedIntent(proc[p].modified), proc[p].sets))
    /\ proc' = Put(proc, p,
          [pc |-> "done", op |-> "set",
           ret |-> IF proc[p].executed \o proc[p].modified = <<>> THEN None
                   ELSE coerce_outputs(SharedIntent(proc[p].executed \o proc[p].modified))[1],
           raised |-> IF proc[p].executed \o proc[p].modified = <<>> THEN "IndexError"
                      ELSE None])
    /\ UNCHANGED <<now, ticks, call>>

\* _delete as entered with the names to kill: the exceptions of its first
\* lines, or the call on its way to the smembers pipeline
delete_entered(op, kill) ==
    IF kill = {} THEN [pc |-> "done", op |-> op, kill |-> {}, raised |-> "TypeError"]
    ELSE IF \E name \in kill : InReservedNamespace(name)
        THEN [pc |-> "done", op |-> op, kill |-> {}, raised |-> "Exception"]
    ELSE [pc |-> "smembers", op |-> op, kill |-> kill]

\* delete(): the hmget of _are_valid_write_keys
DeleteValid(p, pairs) ==
    /\ call = Idle
    /\ p \notin DOMAIN proc
    /\ proc' = Put(proc, p,
          delete_entered("delete",
             {pairs[i].name : i \in {j \in DOMAIN pairs : are_valid_write_keys(Redis, pairs)[j]}}))
    /\ ServerUnchanged
    /\ UNCHANGED <<now, ticks, call>>

\* _delete: the smembers pipeline
DeleteSmembers(p) ==
    /\ call = Idle
    /\ At(p, "smembers")
    /\ proc[p].op \in {"delete", "gc"}
    /\ proc' = Put(proc, p, [pc |-> "hdel", op |-> proc[p].op, kill |-> proc[p].kill,
                             subs_res |-> [name \in proc[p].kill |->
                                             Lookup(subscribers, name, {})]])
    /\ ServerUnchanged
    /\ UNCHANGED <<now, ticks, call>>

\* _delete: the hdel pipeline of the mailboxes, for the subscribers read
DeleteMessages(p) ==
    /\ call = Idle
    /\ At(p, "hdel")
    /\ messages' = messages_removal([Redis EXCEPT !.subscribers = proc[p].subs_res],
                                    proc[p].kill).messages
    /\ proc' = Put(proc, p, [pc |-> "delete", op |-> proc[p].op, kill |-> proc[p].kill])
    /\ UNCHANGED <<ownership, names, store, subscribers, history, promises, rand, now, ticks,
                   call>>

\* _delete: the delete pipeline.  The record of the call keeps the server as
\* the pipeline found it.
DeleteKeys(p) ==
    /\ call = Idle
    /\ At(p, "delete")
    /\ proc[p].op \in {"delete", "gc"}
    /\ Becomes([Redis EXCEPT !.ownership = Drop(@, proc[p].kill),
                             !.subscribers = Drop(@, proc[p].kill),
                             !.messages = Drop(@, proc[p].kill),
                             !.store = Drop(@, proc[p].kill),
                             !.history = Drop(@, proc[p].kill),
                             !.names = @ \ proc[p].kill])
    /\ proc' = Put(proc, p, [pc |-> "done", op |-> proc[p].op, kill |-> proc[p].kill,
                             raised |-> None, before |-> Redis])
    /\ UNCHANGED <<now, ticks, call>>

\* admin_garbage_collection: the scard
CollectScard(p) ==
    /\ call = Idle
    /\ p \notin DOMAIN proc
    /\ proc' = Put(proc, p, [pc |-> "srandmember", op |-> "gc",
                             num |-> num_survey(Cardinality(names))])
    /\ ServerUnchanged
    /\ UNCHANGED <<now, ticks, call>>

\* _randomly_find_orphans: the srandmember, None for an empty sample
CollectSrandmember(p) ==
    /\ call = Idle
    /\ At(p, "srandmember")
    /\ \E sample \in srandmember(names, proc[p].num) :
          proc' = Put(proc, p,
                      IF sample = {}
                        THEN [pc |-> "done", op |-> "gc", kill |-> {}, raised |-> None]
                        ELSE [pc |-> "exists", op |-> "gc", sample |-> sample])
    /\ ServerUnchanged
    /\ UNCHANGED <<now, ticks, call>>

\* _randomly_find_orphans: the exists of the whole sample, None unless the
\* count falls short
CollectExists(p) ==
    /\ call = Idle
    /\ At(p, "exists")
    /\ proc' = Put(proc, p,
                   IF num_exists(Redis, proc[p].sample) < Cardinality(proc[p].sample)
                     THEN [pc |-> "orphans", op |-> "gc", sample |-> proc[p].sample]
                     ELSE [pc |-> "done", op |-> "gc", kill |-> {}, raised |-> None])
    /\ ServerUnchanged
    /\ UNCHANGED <<now, ticks, call>>

\* _randomly_find_orphans: the exists pipeline, and _delete entered with the
\* orphans it shows
CollectOrphans(p) ==
    /\ call = Idle
    /\ At(p, "orphans")
    /\ proc' = Put(proc, p, delete_entered("gc", orphans_of(Redis, proc[p].sample)))
    /\ ServerUnchanged
    /\ UNCHANGED <<now, ticks, call>>

Clients == {"c1", "c2"}

Collectors == {"gc"}

RaceItems == {Item(A, "v1", K1)}

RacePairs == {[name |-> A, write_key |-> K1]}

NextRace ==
    \/ \E p \in Clients : \E item \in RaceItems : SetObscure(p, <<item>>)
    \/ \E p \in Clients : \E pair \in RacePairs : DeleteValid(p, <<pair>>)
    \/ \E p \in Clients :
          \/ SetExists(p)
          \/ SetNew(p)
          \/ SetWriteKeys(p)
          \/ SetExisting(p)
          \/ SetSmembers(p)
          \/ SetPropagate(p)
    \/ \E p \in Collectors :
          \/ CollectScard(p)
          \/ CollectSrandmember(p)
          \/ CollectExists(p)
          \/ CollectOrphans(p)
    \/ \E p \in Clients \cup Collectors :
          \/ DeleteSmembers(p)
          \/ DeleteMessages(p)
          \/ DeleteKeys(p)
          \/ Finish(p)
    \/ \E seconds \in {MAX_TTL_SECONDS} : Tick(seconds)

SpecRace == Init /\ [][NextRace]_vars

---------------------------------------------------------------------------
(* A set that supplies no write key, while a delete or the collector takes *)
(* the name away.                                                          *)

Writers == {"c1"}

Removers == {"c2"}

KeylessItems == {Item(A, "v1", K1), Item(A, "v2", None)}

NextKeyless ==
    \/ \E p \in Writers : \E item \in KeylessItems : SetObscure(p, <<item>>)
    \/ \E p \in Removers : \E pair \in RacePairs : DeleteValid(p, <<pair>>)
    \/ \E p \in Writers :
          \/ SetExists(p)
          \/ SetNew(p)
          \/ SetWriteKeys(p)
          \/ SetExisting(p)
          \/ SetSmembers(p)
          \/ SetPropagate(p)
    \/ \E p \in Collectors :
          \/ CollectScard(p)
          \/ CollectSrandmember(p)
          \/ CollectExists(p)
          \/ CollectOrphans(p)
    \/ \E p \in Writers \cup Removers \cup Collectors :
          \/ DeleteSmembers(p)
          \/ DeleteMessages(p)
          \/ DeleteKeys(p)
          \/ Finish(p)
    \/ \E seconds \in {MAX_TTL_SECONDS} : Tick(seconds)

SpecKeyless == Init /\ [][NextKeyless]_vars

---------------------------------------------------------------------------
(* Properties.  A call's outcome is judged in the state in which call      *)
(* holds it: call.before is the server as the call found it, the           *)
(* variables are the server as the call left it.                           *)

SetCalled == call.op = "set"
SingularSet == SetCalled /\ call.singular
TheItem == call.items[1]

\* the server's data is as the call found it
ServerUntouched ==
    /\ ownership = call.before.ownership
    /\ names = call.before.names
    /\ store = call.before.store
    /\ subscribers = call.before.subscribers
    /\ messages = call.before.messages
    /\ history = call.before.history
    /\ promises = call.before.promises

Owned(r, name) == name \in DOMAIN r.ownership

\* the entries of the call that name an owned name with another key than the owner's
Mismatched(item) ==
    /\ Owned(call.before, item.name)
    /\ item.write_key # call.before.ownership[item.name]

\* C1: a set on a name that has an ownership record, with another write key
\* than the one on record, executes nothing and leaves the server as it was:
\* the value get returns, the ownership record, the index of names, the time
\* to live of the value, the promises and every mailbox.
C1_MismatchedKeyMutatesNothing ==
    (SingularSet /\ Mismatched(TheItem)) =>
        /\ call.executed = <<>>
        /\ call.ret = None
        /\ get(Redis, TheItem.name) = get(call.before, TheItem.name)
        /\ ServerUntouched

C1_Witness ==
    /\ SingularSet
    /\ Mismatched(TheItem)
    /\ is_valid_value(TheItem.value)
    /\ is_valid_key(TheItem.write_key)
    /\ get(call.before, TheItem.name) \notin {None, TheItem.value}
    /\ call.before.messages # <<>>
    /\ call.before.promises # <<>>
    /\ call.raised = "IndexError"

\* C3: a set on a name with the write key on record and a valid value is
\* accepted: it returns the name and the key, get then returns the new value,
\* and the ownership record still maps the name to the key.
C3_OwnerOverwrites ==
    (/\ SingularSet
     /\ Owned(call.before, TheItem.name)
     /\ TheItem.write_key = call.before.ownership[TheItem.name]
     /\ is_valid_value(TheItem.value)) =>
        /\ call.raised = None
        /\ call.ret = [name |-> TheItem.name, write_key |-> TheItem.write_key]
        /\ get(Redis, TheItem.name) = TheItem.value
        /\ Owned(Redis, TheItem.name)
        /\ ownership[TheItem.name] = TheItem.write_key

C3_Witness ==
    /\ SingularSet
    /\ Owned(call.before, TheItem.name)
    /\ TheItem.write_key = call.before.ownership[TheItem.name]
    /\ get(call.before, TheItem.name) \notin {None, TheItem.value}
    /\ get(Redis, TheItem.name) = TheItem.value

\* C4: a batched set returns, for every input it accepted and in the order
\* of the inputs, that input's own resolved name and write key, and nothing
\* for a rejected input, whatever the size of the batch.
C4_EachAcceptedInputItsOwnPair ==
    (SetCalled /\ ~call.singular /\ call.raised = None) =>
        call.ret = coerce_outputs(call.executed)

\* C5: a set with the name omitted, a valid value and a valid or omitted
\* write key succeeds: the name it returns is a new valid name, the key it
\* returns is the name's owner on record, the name is in the index of names
\* and get of the name returns the value.
C5_AnonymousSetSucceeds ==
    (/\ SingularSet
     /\ TheItem.name = NoName
     /\ is_valid_value(TheItem.value)
     /\ (TheItem.write_key = None \/ is_valid_key(TheItem.write_key))) =>
        /\ call.raised = None
        /\ is_valid_name(call.ret.name)
        /\ ~Owned(call.before, call.ret.name)
        /\ call.ret.name \notin DOMAIN call.before.store
        /\ is_valid_key(call.ret.write_key)
        /\ (TheItem.write_key # None => call.ret.write_key = TheItem.write_key)
        /\ Owned(Redis, call.ret.name)
        /\ ownership[call.ret.name] = call.ret.write_key
        /\ call.ret.name \in names
        /\ get(Redis, call.ret.name) = TheItem.value

C5_Witness ==
    /\ SingularSet
    /\ TheItem.name = NoName
    /\ TheItem.write_key = None
    /\ call.raised = None
    /\ is_valid_key(call.ret.write_key)
    /\ ownership[call.ret.name] = call.ret.write_key
    /\ get(Redis, call.ret.name) = TheItem.value

\* an entry of the call that nothing stops: its value, name and key are valid
\* and its key is the owner's where the name is owned
ValidEntry(item) ==
    /\ is_valid_value(item.value)
    /\ IF item.name = NoName THEN item.write_key = None \/ is_valid_key(item.write_key)
       ELSE /\ is_valid_name(item.name)
            /\ IF Owned(call.before, item.name)
                 THEN item.write_key = call.before.ownership[item.name]
                 ELSE item.write_key = None \/ is_valid_key(item.write_key)

ExecutedNdxs == {call.executed[j].ndx : j \in DOMAIN call.executed}

\* C2: the first writer of a name wins.  Of two entries of one set that
\* name the same name, not yet owned, with different write keys, only the
\* first is accepted and the ownership record keeps its key; and no set
\* changes or removes the key on record for a name that was already owned.
C2_FirstWriterWins ==
    SetCalled =>
        /\ \A i, j \in DOMAIN call.items :
              (/\ i < j
               /\ call.items[i].name # NoName
               /\ call.items[i].name = call.items[j].name
               /\ ~Owned(call.before, call.items[i].name)
               /\ call.items[i].write_key # call.items[j].write_key
               /\ ValidEntry(call.items[i])
               /\ ValidEntry(call.items[j])) =>
                    /\ (i - 1) \in ExecutedNdxs
                    /\ (j - 1) \notin ExecutedNdxs
                    /\ Owned(Redis, call.items[i].name)
                    /\ ownership[call.items[i].name] = call.items[i].write_key
        /\ \A name \in DOMAIN call.before.ownership :
              Owned(Redis, name) /\ ownership[name] = call.before.ownership[name]

\* C6: in a batched set an invalid name, value or write key, or a key that
\* is not the owner's, rejects that entry only: the call returns and every
\* valid entry of the batch is executed.
C6_RejectionsDoNotAbortTheBatch ==
    (SetCalled /\ ~call.singular) =>
        /\ call.raised = None
        /\ \A i \in DOMAIN call.items : ValidEntry(call.items[i]) => (i - 1) \in ExecutedNdxs

\* the names under which the call made or changed an ownership record, an
\* entry of the index of names or a stored value
Created ==
    {n \in DOMAIN ownership :
        ~Owned(call.before, n) \/ ownership[n] # call.before.ownership[n]}
    \cup (names \ call.before.names)
    \cup {n \in DOMAIN store :
            n \notin DOMAIN call.before.store \/ store[n] # call.before.store[n]}

\* a value whose size is at or over the ceiling
Oversize(value) == getsizeof(value) >= 100000

\* C7: a set never executes an entry whose value exceeds the size ceiling,
\* and every ownership record, index entry and stored value the call makes
\* belongs to an executed entry, so none is made for an oversize value.
C7_OversizeValueCreatesNothing ==
    SetCalled =>
        /\ \A j \in DOMAIN call.executed :
              ~Oversize(call.items[call.executed[j].ndx + 1].value)
        /\ \A n \in Created : \E j \in DOMAIN call.executed :
              n \in {call.executed[j].name, call.executed[j].copy}

C7_Witness ==
    /\ SetCalled
    /\ \E i \in DOMAIN call.items :
          /\ Oversize(call.items[i].value)
          /\ Owned(call.before, call.items[i].name)
    /\ call.raised = "TypeError"
    /\ Created = {}

DeleteCalled == call.op = "delete" /\ Len(call.pairs) = 1
ThePair == call.pairs[1]

Authorized(pair) ==
    /\ Owned(call.before, pair.name)
    /\ pair.write_key = call.before.ownership[pair.name]

\* what a set of the name with this value and key would now do
SetNow(name, value, write_key) == set(Redis, <<Item(name, value, write_key)>>, TRUE, now)

\* C8: a delete with the write key on record removes the name's value, its
\* ownership record, its set of subscribers, its mailbox and its history
\* stream and takes the name out of the index of names; after it get of the
\* name returns None and a set of the name with another key is accepted as
\* the creation of a new page.
C8_AuthorizedDeleteRemoves ==
    (DeleteCalled /\ Authorized(ThePair)) =>
        /\ call.raised = None
        /\ ThePair.name \notin DOMAIN store
        /\ ThePair.name \notin DOMAIN ownership
        /\ ThePair.name \notin DOMAIN subscribers
        /\ ThePair.name \notin DOMAIN messages
        /\ ThePair.name \notin DOMAIN history
        /\ ThePair.name \notin names
        /\ get(Redis, ThePair.name) = None
        /\ \A write_key \in {K1, K2} \ {ThePair.write_key} :
              LET again == SetNow(ThePair.name, "v2", write_key)
              IN  /\ again.raised = None
                  /\ again.ret = [name |-> ThePair.name, write_key |-> write_key]
                  /\ again.executed[1].new
                  /\ again.r.ownership[ThePair.name] = write_key
                  /\ get(again.r, ThePair.name) = "v2"

C8_Witness ==
    /\ DeleteCalled
    /\ Authorized(ThePair)
    /\ ThePair.name \in DOMAIN call.before.store
    /\ ThePair.name \in DOMAIN call.before.subscribers
    /\ ThePair.name \in DOMAIN call.before.messages
    /\ ThePair.name \in DOMAIN call.before.history
    /\ ThePair.name \in call.before.names
    /\ ThePair.name \notin DOMAIN ownership

\* C9: a delete whose write key is not the one on record for the name, or of
\* a name without an ownership record, returns without raising and leaves
\* the server as it was.
C9_UnauthorizedDeleteIsSilent ==
    (DeleteCalled /\ ~Authorized(ThePair)) =>
        /\ call.raised = None
        /\ ServerUntouched

\* the value of the last entry the call executed for the name
RECURSIVE LastValue(_, _)
LastValue(name, j) ==
    IF call.executed[j].name = name THEN call.executed[j].value ELSE LastValue(name, j - 1)

\* C10: once B is subscribed to A, every write to A that a set accepts, the
\* one that creates A and the later ones, alone or in a batch, leaves B's
\* mailbox holding the value written under the field A.
C10_AcceptedWriteReachesSubscribers ==
    SetCalled =>
        \A j \in DOMAIN call.executed :
           \A subscriber \in Lookup(call.before.subscribers, call.executed[j].name, {}) :
              /\ subscriber \in DOMAIN messages
              /\ call.executed[j].name \in DOMAIN messages[subscriber]
              /\ messages[subscriber][call.executed[j].name]
                    = LastValue(call.executed[j].name, Len(call.executed))

\* C11: unsubscribing a subscriber from a publisher returns without error
\* and leaves the publisher's set of subscribers without the subscriber, so
\* that subscribe followed by unsubscribe gives back the set there was.
C11_UnsubscribeRemoves ==
    call.op = "unsubscribe" =>
        /\ call.raised = None
        /\ call.subscriber \notin Lookup(subscribers, call.publisher, {})

\* the names of the index whose live value is gone
Orphans(r) == {name \in r.names : name \notin DOMAIN r.store}

\* C12: one run of admin_garbage_collection that samples the whole index of
\* names removes every name whose value has expired from the index and from
\* the ownership records and returns how many it removed; a set of such a
\* name with another write key is then accepted as the creation of a page.
C12_CollectionFreesExpiredName ==
    (call.op = "gc" /\ call.sample = call.before.names) =>
        /\ call.raised = None
        /\ call.ret = Cardinality(Orphans(call.before))
        /\ \A name \in Orphans(call.before) :
              /\ name \notin names
              /\ name \notin DOMAIN ownership
              /\ \A write_key \in {K1, K2} \ {Lookup(call.before.ownership, name, None)} :
                    /\ SetNow(name, "v2", write_key).raised = None
                    /\ SetNow(name, "v2", write_key).executed[1].new
                    /\ SetNow(name, "v2", write_key).r.ownership[name] = write_key
                    /\ get(SetNow(name, "v2", write_key).r, name) = "v2"

C12_Witness ==
    /\ call.op = "gc"
    /\ call.ret = 1
    /\ A \in Orphans(call.before)
    /\ Lookup(call.before.ownership, A, None) = K1
    /\ A \notin names
    /\ A \notin DOMAIN ownership

\* the buckets of promises that had fallen due when the call began
Due(r, t) == {PROMISE \in DOMAIN r.promises : PROMISE <= t}

\* no other promise that had fallen due, in this bucket or a later one, has
\* the destination of this one
LatestFor(r, t, PROMISE, promise) ==
    \A other \in Due(r, t) : \A rival \in r.promises[other].members :
        (rival.destination = promise.destination /\ other >= PROMISE) => rival = promise

\* C14: when admin_promises runs between the time a promise falls due and
\* the expiry of its bucket, get of the promise's destination afterwards
\* returns the value of the write that made the promise, whatever was
\* written to the name since.  Stated for the promise that fell due last
\* for its destination, where two fell due.
C14_PromisedCopyHoldsTheValueWritten ==
    call.op = "promises" =>
        \A PROMISE \in Due(call.before, now) :
           \A promise \in call.before.promises[PROMISE].members :
              LatestFor(call.before, now, PROMISE, promise) =>
                  get(Redis, promise.destination) = get(call.before, promise.source)

\* C15: every write a set executes leaves the live value with the lifetime
\* the cost model gives the value written, whatever lifetime it had left;
\* a get changes neither a lifetime nor anything else the server holds, and
\* returns what the server held for the name.
C15_WriteRefreshesLifetimeGetLeavesIt ==
    /\ SetCalled =>
          \A j \in DOMAIN call.executed :
             /\ call.executed[j].name \in DOMAIN store
             /\ store[call.executed[j].name].exp - now =
                   cost_based_ttl(LastValue(call.executed[j].name, Len(call.executed)))
    /\ call.op = "get" =>
          /\ ServerUntouched
          /\ call.ret = get(call.before, call.name)
          /\ get(Redis, call.name) = call.ret

C15_Witness ==
    /\ SetCalled
    /\ Len(call.executed) = 1
    /\ call.executed[1].name \in DOMAIN call.before.store
    /\ call.before.store[call.executed[1].name].exp - now
          \notin {cost_based_ttl(call.executed[1].value), cost_based_ttl("v1")}
    /\ call.before.store[call.executed[1].name].exp - now < cost_based_ttl(call.executed[1].value)

\* the call is a set of a name that is owned and whose value has expired
SetOfExpired ==
    /\ SingularSet
    /\ Owned(call.before, TheItem.name)
    /\ TheItem.name \notin DOMAIN call.before.store
    /\ is_valid_value(TheItem.value)

\* C19: while the ownership record of a name whose value has expired is
\* still there, a set of the name with another write key is rejected and
\* changes nothing, and a set with the key on record is accepted and makes
\* the value live again.
C19_OwnershipOutlivesValue ==
    SetOfExpired =>
        IF TheItem.write_key = call.before.ownership[TheItem.name]
          THEN /\ call.raised = None
               /\ get(Redis, TheItem.name) = TheItem.value
               /\ ownership[TheItem.name] = TheItem.write_key
          ELSE /\ call.executed = <<>>
               /\ ServerUntouched
               /\ get(Redis, TheItem.name) = None

C19_Witness ==
    /\ SetOfExpired
    /\ is_valid_key(TheItem.write_key)
    /\ TheItem.write_key # call.before.ownership[TheItem.name]
    /\ call.executed = <<>>
    /\ TheItem.name \in names

\* the keys under which _modify_page wrote a history copy: a generated key,
\* a colon, the name
IsCopy(key) == key.pre # <<>> /\ \E i \in 1..(MaxRandom + 1) : key.pre[1] = random_key(i)

\* C20: no set and no delete, whatever name and write key it is given,
\* changes or removes a history copy that has not expired.
C20_HistoryCopyImmutable ==
    call.op \in {"set", "delete"} =>
        \A key \in DOMAIN call.before.store :
            IsCopy(key) => key \in DOMAIN store /\ store[key] = call.before.store[key]

\* no name of the index and no ownership record is without a live value
NoOrphan == Orphans(Redis) = {} /\ DOMAIN ownership \subseteq DOMAIN store

C13_PromiseExecutedAtMostOnce ==
    \A e1, e2 \in DOMAIN proc :
        (e1 # e2 /\ proc[e1].pc = "done" /\ proc[e2].pc = "done") =>
            proc[e1].copied \cap proc[e2].copied = {}
\* the names a user gives its pages
UserNames == {A, B}

\* a collector's _delete has run its delete pipeline
Collected(p) == p \in DOMAIN proc /\ proc[p].pc = "done" /\ proc[p].op = "gc"
                /\ proc[p].kill # {}

\* C16: garbage collection removes only names whose live key is absent: when
\* the collector's delete pipeline ran, whatever sets of the owner came in
\* between, none of the names it removed had a live value.
C16_CollectorRemovesOnlyAbsent ==
    \A p \in DOMAIN proc :
        Collected(p) => \A name \in proc[p].kill : name \notin DOMAIN proc[p].before.store

\* C17: in every state that overlapping set, delete and collection calls
\* reach, a user name with a live value is in the index of names and has an
\* ownership record.
C17_LiveNameIsIndexedAndOwned ==
    \A name \in UserNames :
        name \in DOMAIN store => name \in names /\ name \in DOMAIN ownership


\* C21: an authorized delete of a publisher takes the publisher's entry out
\* of the mailbox of every name subscribed to it: afterwards no subscriber's
\* mailbox holds a value under the name deleted.
C21_DeleteClearsSubscribersMailboxes ==
    (DeleteCalled /\ Authorized(ThePair) /\ call.raised = None) =>
        \A subscriber \in Lookup(call.before.subscribers, ThePair.name, {}) :
            ThePair.name \notin DOMAIN Lookup(messages, subscriber, <<>>)


\* the buckets that a run of admin_promises at t finds with a promise for
\* the destination
Matured(r, t, destination) ==
    {PROMISE \in DOMAIN collections(r, t) :
        \E promise \in collections(r, t)[PROMISE] : promise.destination = destination}

\* C22: when one run of admin_promises finds promises for one destination in
\* several buckets, made by writes some seconds apart, the destination ends
\* up with the value of the write made last, which is the one of the latest
\* bucket: no older value takes its place.
C22_LatestMaturedPromiseWins ==
    (call.op = "promises" /\ call.raised = None) =>
        \A destination \in destinations(collections(call.before, now)) :
           \A PROMISE \in Matured(call.before, now, destination) :
              \A promise \in collections(call.before, now)[PROMISE] :
                 ( /\ Cardinality(Matured(call.before, now, destination)) > 1
                   /\ promise.destination = destination
                   /\ \A other \in Matured(call.before, now, destination) : other <= PROMISE
                   /\ Cardinality({rival \in collections(call.before, now)[PROMISE] :
                                      rival.destination = destination}) = 1 )
                 => get(Redis, destination) = get(call.before, promise.source)


\* C23: every key that holds a value, be it a live value, a history copy or
\* a delayed destination that admin_promises wrote, has a time to live.
C23_EveryValueIsTimeBoxed ==
    \A key \in DOMAIN store : store[key].exp # NoExpiry


\* the set p, which has read the write keys on record, writes the entry of
\* this ndx as a modification in this step
Modifies(p, ndx) ==
    /\ p \in DOMAIN proc'
    /\ proc'[p].pc = "subscribers"
    /\ \E j \in DOMAIN proc'[p].modified : proc'[p].modified[j].ndx = ndx

\* C24: a set whose name lost its ownership record between the existence
\* check of the new-name phase and the reading of the write keys on record
\* is not accepted as a modification of the name, whether or not it
\* supplied a write key.
C24_NoModificationWithoutOwnership ==
    [][\A p \in DOMAIN proc :
          At(p, "modify") =>
             \A i \in DOMAIN proc[p].pending :
                proc[p].official_write_keys[i] = None => ~Modifies(p, proc[p].pending[i].ndx)]_vars


===========================================================================
